---- MODULE Spec2Model ----
(***************************************************************************)
(* Portfolio_Dashboard: the returns / metrics pipeline of Dashboard.py and *)
(* pages/1_Stock_Deep_Dive.py as a state machine.  A page run is a script  *)
(* executed top to bottom; each action below is one stretch of a script,   *)
(* its inputs (the upstream API's payloads, the evaluation date, the       *)
(* widgets) drawn from bounded sets.                                       *)
(*                                                                         *)
(* Numbers.  The program computes in IEEE doubles; the model computes in   *)
(* exact rationals extended with the values a numpy division by zero       *)
(* produces (inf, -inf, nan) and with Python's None.  A value is a record  *)
(* [k, n, d]: k = "num" is the rational n/d (d > 0, lowest terms).         *)
(***************************************************************************)
EXTENDS Integers, Sequences, FiniteSets, TLC

(* ------------------------------ bounds --------------------------------- *)
\* longest price history the API hands back in the explored runs
MaxLen == 3
\* most quarterly periods a financial statement holds in the explored runs
MaxPeriods == 5

(* ------------------------------ numbers -------------------------------- *)
Abs(i) == IF i < 0 THEN -i ELSE i

RECURSIVE GCD(_, _)
GCD(a, b) == IF b = 0 THEN a ELSE GCD(b, a % b)

Num(n, d) ==
    LET s == IF d < 0 THEN -1 ELSE 1
        g == GCD(Abs(n), Abs(d))
    IN  [k |-> "num", n |-> (s * n) \div g, d |-> (s * d) \div g]

Rat(i) == [k |-> "num", n |-> i, d |-> 1]
None   == [k |-> "None", n |-> 0, d |-> 1]
PosInf == [k |-> "inf", n |-> 1, d |-> 1]
NegInf == [k |-> "inf", n |-> -1, d |-> 1]
NaN    == [k |-> "nan", n |-> 0, d |-> 1]
\* the placeholder the pages print for a missing figure
NA     == [k |-> "N/A", n |-> 0, d |-> 1]

IsNum(x) == x.k = "num"
Sign(x) == IF x.n > 0 THEN 1 ELSE IF x.n < 0 THEN -1 ELSE 0
Signed(s) == IF s > 0 THEN PosInf ELSE IF s < 0 THEN NegInf ELSE NaN

\* Python truth value of a price or a figure: None and 0 are false,
\* every other number (inf and nan too) is true.
Truthy(x) == ~(x.k = "None" \/ (x.k = "num" /\ x.n = 0))

\* float arithmetic on numbers, inf and nan (never applied to None)
FNeg(x) == IF x.k = "num" THEN Num(-x.n, x.d)
           ELSE IF x.k = "inf" THEN Signed(-x.n) ELSE NaN

FAdd(x, y) ==
    IF x.k = "nan" \/ y.k = "nan" THEN NaN
    ELSE IF x.k = "inf" /\ y.k = "inf" THEN (IF x.n = y.n THEN x ELSE NaN)
    ELSE IF x.k = "inf" THEN x
    ELSE IF y.k = "inf" THEN y
    ELSE Num(x.n * y.d + y.n * x.d, x.d * y.d)

FSub(x, y) == FAdd(x, FNeg(y))

FMul(x, y) ==
    IF x.k = "nan" \/ y.k = "nan" THEN NaN
    ELSE IF x.k = "inf" \/ y.k = "inf" THEN Signed(Sign(x) * Sign(y))
    ELSE Num(x.n * y.n, x.d * y.d)

\* numpy float division: a zero divisor gives inf, -inf or nan, no exception
FDiv(x, y) ==
    IF x.k = "nan" \/ y.k = "nan" THEN NaN
    ELSE IF x.k = "inf" /\ y.k = "inf" THEN NaN
    ELSE IF x.k = "inf" THEN Signed(Sign(x) * (IF Sign(y) < 0 THEN -1 ELSE 1))
    ELSE IF y.k = "inf" THEN Rat(0)
    ELSE IF y.n = 0 THEN Signed(Sign(x))
    ELSE Num(x.n * y.d, x.d * y.n)

\* round half to even to the nearest integer, of the rational n/d (d > 0)
RoundHalfEven(n, d) ==
    LET q == n \div d
        r == n % d
    IN  IF 2 * r < d THEN q
        ELSE IF 2 * r > d THEN q + 1
        ELSE IF q % 2 = 0 THEN q ELSE q + 1

\* numpy/pandas round(2) and the "{:.2f}" format: two decimals
Round2(x) ==
    IF x.k = "num"
    THEN Num((x.n \div x.d) * 100 + RoundHalfEven((x.n % x.d) * 100, x.d), 100)
    ELSE x

(* ------------------------------- dates --------------------------------- *)
\* A datetime is <<year, month, day, t>>: t = 0 is midnight, t = 1 a later
\* time of that day.  A price date, and datetime(y, m, 1), is a midnight.
IsLeap(y) == (y % 4 = 0 /\ y % 100 # 0) \/ y % 400 = 0

DaysInMonth(y, m) ==
    IF m = 2 THEN (IF IsLeap(y) THEN 29 ELSE 28)
    ELSE IF m \in {4, 6, 9, 11} THEN 30 ELSE 31

\* datetime(y, m, d)
Midnight(y, m, d) == <<y, m, d, 0>>

\* dt - timedelta(days=1): the time of day is kept
MinusOneDay(dt) ==
    IF dt[3] > 1 THEN <<dt[1], dt[2], dt[3] - 1, dt[4]>>
    ELSE IF dt[2] > 1 THEN <<dt[1], dt[2] - 1, DaysInMonth(dt[1], dt[2] - 1), dt[4]>>
    ELSE <<dt[1] - 1, 12, 31, dt[4]>>

\* a < b, a <= b on datetimes
DateLT(a, b) ==
    \/ a[1] < b[1]
    \/ a[1] = b[1] /\ a[2] < b[2]
    \/ a[1] = b[1] /\ a[2] = b[2] /\ a[3] < b[3]
    \/ a[1] = b[1] /\ a[2] = b[2] /\ a[3] = b[3] /\ a[4] < b[4]

DateLE(a, b) == a = b \/ DateLT(a, b)

\* the day's number within its year, 1 for Jan 1, and back
RECURSIVE DaysBeforeMonth(_, _)
DaysBeforeMonth(y, m) ==
    IF m = 1 THEN 0 ELSE DaysBeforeMonth(y, m - 1) + DaysInMonth(y, m - 1)

DayOfYear(dt) == DaysBeforeMonth(dt[1], dt[2]) + dt[3]

RECURSIVE FromDayOfYear(_, _, _, _)
FromDayOfYear(y, m, n, t) ==
    IF n <= DaysInMonth(y, m) THEN <<y, m, n, t>>
    ELSE FromDayOfYear(y, m + 1, n - DaysInMonth(y, m), t)

\* dt - timedelta(days=k), k >= 0: the time of day is kept
RECURSIVE MinusDays(_, _)
MinusDays(dt, k) ==
    IF k < DayOfYear(dt) THEN FromDayOfYear(dt[1], 1, DayOfYear(dt) - k, dt[4])
    ELSE MinusDays(<<dt[1] - 1, 12, 31, dt[4]>>, k - DayOfYear(dt))

(* ------------------------- inputs: the upstream API -------------------- *)
\* The evaluation date (datetime.today()) of the runs explored with every
\* price history, and the trading days those histories may hold.
RunDates == {<<2024, 5, 15, 1>>}
TradeDates == {<<2024, 1, 2, 0>>, <<2024, 3, 28, 0>>, <<2024, 5, 14, 0>>, <<2024, 5, 15, 0>>}
DashTradeDates == {<<2024, 3, 28, 0>>, <<2024, 5, 14, 0>>, <<2024, 5, 15, 0>>}
\* closing prices as the JSON gives them
Closes == {0, 100, 110, 121}
DashCloses == {0, 100, 110}
\* ... and in the runs of a portfolio of several holdings
NonZeroCloses == {100, 110}
\* every calendar day of these years is an evaluation date of some run
EvalYears == {2023, 2024}
EvalDates ==
    {dt \in EvalYears \X (1..12) \X (1..31) \X {1} : dt[3] <= DaysInMonth(dt[1], dt[2])}
        \cup {<<2024, 5, 15, 0>>}

\* the "historical" lists of at most MaxLen points, newest first as the API
\* sends them, one point per date
HistoriesOf(dates, closes) ==
    UNION { { h \in [1..len -> [date : dates, close : closes]] :
                \A i \in 1..len : \A j \in 1..len :
                    i < j => DateLT(h[j].date, h[i].date) } : len \in 0..MaxLen }

\* a response body: has = ("historical" in data)
NoData == [has |-> FALSE, historical |-> <<>>]
PayloadsOf(dates, closes) ==
    {NoData} \cup {[has |-> TRUE, historical |-> h] : h \in HistoriesOf(dates, closes)}

DashPayloads == PayloadsOf(DashTradeDates, DashCloses)
DashPayloadsNonZero == PayloadsOf(DashTradeDates, NonZeroCloses)
DivePayloads == PayloadsOf(TradeDates, Closes)

\* the history served on the other evaluation dates: the last three days
RecentPayload(day) ==
    LET d0 == Midnight(day[1], day[2], day[3])
    IN  [has |-> TRUE,
         historical |-> << [date |-> d0, close |-> 121],
                           [date |-> MinusOneDay(d0), close |-> 110],
                           [date |-> MinusDays(d0, 2), close |-> 100] >>]

\* what the API may answer in a dashboard run of `holdings` holdings on `day`
DashPayloadsOn(day, holdings) ==
    IF day \notin RunDates THEN {RecentPayload(day)}
    ELSE IF holdings > 1 THEN DashPayloadsNonZero
    ELSE DashPayloads

\* a history that reaches a year back: the day, 365 days before it and 366
\* days before it
YearAgoPayload(day) ==
    LET d0 == Midnight(day[1], day[2], day[3])
    IN  [has |-> TRUE,
         historical |-> << [date |-> d0, close |-> 121],
                           [date |-> MinusDays(d0, 365), close |-> 110],
                           [date |-> MinusDays(d0, 366), close |-> 100] >>]

DivePayloadsOn(day) ==
    (IF day \in RunDates THEN DivePayloads ELSE {RecentPayload(day)})
        \cup {YearAgoPayload(day)}

(* --------------------------- pandas helpers ---------------------------- *)
\* prices.sort_values("date"): ascending by date (insertion sort)
RECURSIVE InsertByDate(_, _)
InsertByDate(p, s) ==
    IF s = <<>> THEN <<p>>
    ELSE IF DateLE(p.date, Head(s).date) THEN <<p>> \o s
    ELSE <<Head(s)>> \o InsertByDate(p, Tail(s))

RECURSIVE SortByDate(_)
SortByDate(h) == IF h = <<>> THEN <<>> ELSE InsertByDate(Head(h), SortByDate(Tail(h)))

\* prices[prices["date"] <= bound] and prices[prices["date"] >= bound]
RECURSIVE FilterLE(_, _)
FilterLE(s, bound) ==
    IF s = <<>> THEN <<>>
    ELSE (IF DateLE(Head(s).date, bound) THEN <<Head(s)>> ELSE <<>>) \o FilterLE(Tail(s), bound)

RECURSIVE FilterGE(_, _)
FilterGE(s, bound) ==
    IF s = <<>> THEN <<>>
    ELSE (IF DateLE(bound, Head(s).date) THEN <<Head(s)>> ELSE <<>>) \o FilterGE(Tail(s), bound)

\* s.iloc[-k]
ILocBack(s, k) == s[Len(s) + 1 - k]

(* --------------------------- Dashboard.py ------------------------------ *)
\* the quarter's starting month taken one month late: 2, 5, 8 or 11
current_quarter_start_late(day) == ((day[2] - 1) \div 3) * 3 + 2

\* (today.month - 1) // 3 * 3 + 1
current_quarter_start(day) == ((day[2] - 1) \div 3) * 3 + 1

\* datetime(today.year, current_quarter_start, 1) - timedelta(days=1)
previous_quarter_end(day) == MinusOneDay(Midnight(day[1], current_quarter_start(day), 1))

Raised(e) == [exc |-> e, current_close |-> None, yesterday_close |-> None,
              previous_quarter_close |-> None]

\* get_stock_price: exc names the exception the call raises, "none" if it returns
get_stock_price(data, day) ==
    IF ~data.has THEN
        [exc |-> "none", current_close |-> None, yesterday_close |-> None,
         previous_quarter_close |-> None]
    ELSE IF Len(data.historical) = 0 THEN Raised("KeyError")
    ELSE IF Len(data.historical) = 1 THEN Raised("IndexError")
    ELSE
        LET prices == SortByDate(data.historical)
            previous_quarter_prices == FilterLE(prices, previous_quarter_end(day))
        IN  [exc |-> "none",
             current_close |-> Rat(ILocBack(prices, 1).close),
             yesterday_close |-> Rat(ILocBack(prices, 2).close),
             previous_quarter_close |->
                 IF previous_quarter_prices # <<>>
                 THEN Rat(ILocBack(previous_quarter_prices, 1).close)
                 ELSE None]

\* (a - b) / b * 100
PctChange(a, b) == FMul(FDiv(FSub(a, b), b), Rat(100))

\* get_sp500_performance, given get_stock_price("SPY")'s result
get_sp500_performance(spy) ==
    IF Truthy(spy.current_close) /\ Truthy(spy.previous_quarter_close)
    THEN [spy_qtd_return |-> PctChange(spy.current_close, spy.previous_quarter_close),
          spy_daily_return |-> PctChange(spy.current_close, spy.yesterday_close)]
    ELSE [spy_qtd_return |-> None, spy_daily_return |-> None]

RECURSIVE SumOf(_)
SumOf(s) == IF s = <<>> THEN Rat(0) ELSE FAdd(Head(s), SumOf(Tail(s)))

\* calculate_portfolio_performance
calculate_portfolio_performance(df) ==
    [portfolio_qtd_return |->
        FDiv(SumOf([i \in 1..Len(df) |-> FMul(df[i].Weight, df[i].QuarterlyReturn)]), Rat(100)),
     portfolio_daily_return |->
        FDiv(SumOf([i \in 1..Len(df) |-> FMul(df[i].Weight, df[i].DayGain)]), Rat(100))]

\* the portfolio files: Tickers as the "_"-separated parts of the identifier,
\* Weights as fractions
PortfolioFiles ==
    { << [Tickers |-> <<"AAA", "US">>, Weights |-> Num(3, 5)],
         [Tickers |-> <<"BBB">>, Weights |-> Num(2, 5)] >>,
      << [Tickers |-> <<"CCC", "LN">>, Weights |-> Num(1, 3)] >> }
NoFile == <<>>

\* load_portfolio_from_file
load_portfolio_from_file(file) ==
    [i \in 1..Len(file) |->
        [Tickers |-> Head(file[i].Tickers),
         Weights |-> FMul(file[i].Weights, Rat(100))]]

\* authenticate_and_load_portfolio: the file to load, NoFile for None
authenticate_and_load_portfolio(passwordMatches, folderFile, uploaded_file) ==
    IF passwordMatches THEN folderFile ELSE uploaded_file

\* one pass of the loop body, lines 109-124: the rows after this ticker
performance_row(row, got) ==
    IF Truthy(got.current_close) /\ Truthy(got.yesterday_close)
       /\ Truthy(got.previous_quarter_close)
    THEN << [Ticker |-> row.Tickers,
             Weight |-> row.Weights,
             CurrentPrice |-> got.current_close,
             YesterdayClose |-> got.yesterday_close,
             PreviousQuarterPrice |-> got.previous_quarter_close,
             QuarterlyReturn |-> PctChange(got.current_close, got.previous_quarter_close),
             DayGain |-> PctChange(got.current_close, got.yesterday_close)] >>
    ELSE <<>>

\* lines 139-141: the contribution column, before rounding
with_contribution(r) ==
    [Ticker |-> r.Ticker, Weight |-> r.Weight, CurrentPrice |-> r.CurrentPrice,
     YesterdayClose |-> r.YesterdayClose, PreviousQuarterPrice |-> r.PreviousQuarterPrice,
     QuarterlyReturn |-> r.QuarterlyReturn, DayGain |-> r.DayGain,
     PerformanceContribution |-> FDiv(FMul(r.Weight, r.QuarterlyReturn), Rat(100))]

\* line 144: performance_df.round(2), every numeric column
round_row(r) ==
    [Ticker |-> r.Ticker, Weight |-> Round2(r.Weight),
     CurrentPrice |-> Round2(r.CurrentPrice),
     YesterdayClose |-> Round2(r.YesterdayClose),
     PreviousQuarterPrice |-> Round2(r.PreviousQuarterPrice),
     QuarterlyReturn |-> Round2(r.QuarterlyReturn), DayGain |-> Round2(r.DayGain),
     PerformanceContribution |-> Round2(r.PerformanceContribution)]

\* lines 127-144
build_performance_df(data) == [i \in 1..Len(data) |-> round_row(with_contribution(data[i]))]

\* f"{x:.2f}%"
Format2f(x) == Round2(x)

(* ---------------------- pages/1_Stock_Deep_Dive.py --------------------- *)
\* a DataFrame or None
NoFrame == [isNone |-> TRUE, rows |-> <<>>]
Frame(rows) == [isNone |-> FALSE, rows |-> rows]

\* get_historical_prices: exc names the exception raised, "none" if it returns
get_historical_prices(data) ==
    IF ~data.has THEN [exc |-> "none", prices |-> NoFrame]
    ELSE IF Len(data.historical) = 0 THEN [exc |-> "KeyError", prices |-> NoFrame]
    ELSE [exc |-> "none", prices |-> Frame(SortByDate(data.historical))]

\* line 43: datetime(today.year, (today.month - 1) // 3 * 3 + 1, 1) - timedelta(days=1)
qtd_start_date(day) == MinusOneDay(Midnight(day[1], ((day[2] - 1) \div 3) * 3 + 1, 1))

\* calculate_returns
calculate_returns(prices, day) ==
    IF ~prices.isNone /\ prices.rows # <<>> THEN
        IF Len(prices.rows) = 1
        THEN [exc |-> "IndexError", day_return |-> None, qtd_return |-> None]
        ELSE
            LET current_price == Rat(ILocBack(prices.rows, 1).close)
                yesterday_price == Rat(ILocBack(prices.rows, 2).close)
                qtd_prices == FilterGE(prices.rows, qtd_start_date(day))
                qtd_start_price ==
                    IF qtd_prices # <<>> THEN Rat(qtd_prices[1].close) ELSE None
            IN  [exc |-> "none",
                 day_return |->
                    IF Truthy(yesterday_price)
                    THEN PctChange(current_price, yesterday_price) ELSE None,
                 qtd_return |->
                    IF Truthy(qtd_start_price)
                    THEN PctChange(current_price, qtd_start_price) ELSE None]
    ELSE [exc |-> "none", day_return |-> None, qtd_return |-> None]

\* lines 222-223: f"{x:.2f}%" if x is not None else "N/A"
MetricText(x) == IF x # None THEN Format2f(x) ELSE NA

\* rebase_prices, on the closes of a non-empty window; an empty one raises
rebase_prices(closes) ==
    [i \in 1..Len(closes) |-> FMul(FSub(FDiv(closes[i], closes[1]), Rat(1)), Rat(100))]

CloseColumn(rows) == [i \in 1..Len(rows) |-> Rat(rows[i].close)]
DateColumn(rows) == [i \in 1..Len(rows) |-> rows[i].date]

\* lines 231-237: the start of the chart window
start_date(chart_view, day) ==
    IF chart_view = "QTD"
    THEN MinusOneDay(Midnight(day[1], ((day[2] - 1) \div 3) * 3 + 1, 1))
    ELSE IF chart_view = "YTD"
    THEN MinusOneDay(Midnight(day[1], 1, 1))
    ELSE MinusOneDay(MinusDays(day, 365))

ChartViews == {"QTD", "YTD", "1Y"}

\* lines 241-303: the traces of the figure; exc is the exception raised, if any.
\* spy is get_historical_prices("SPY")'s result, NoFrame when add_spy is off.
chart_traces(prices, spy, chart_view, add_spy, rebase, day) ==
    LET start == start_date(chart_view, day)
        filtered_prices == FilterGE(prices.rows, start)
        filtered_spy_prices ==
            IF ~spy.isNone THEN Frame(FilterGE(spy.rows, start)) ELSE NoFrame
        spy_shown == add_spy /\ ~filtered_spy_prices.isNone
    IN  IF rebase THEN
            IF spy_shown /\ filtered_spy_prices.rows = <<>>
            THEN [exc |-> "IndexError", start_date |-> start, traces |-> <<>>]
            ELSE [exc |-> "none", start_date |-> start,
                  traces |->
                    (IF filtered_prices # <<>>
                     THEN << [name |-> "stock", x |-> DateColumn(filtered_prices),
                              y |-> rebase_prices(CloseColumn(filtered_prices))] >>
                     ELSE <<>>)
                    \o
                    (IF spy_shown
                     THEN << [name |-> "SPY", x |-> DateColumn(filtered_spy_prices.rows),
                              y |-> rebase_prices(CloseColumn(filtered_spy_prices.rows))] >>
                     ELSE <<>>)]
        ELSE [exc |-> "none", start_date |-> start,
              traces |->
                << [name |-> "stock", x |-> DateColumn(filtered_prices),
                    y |-> CloseColumn(filtered_prices)] >>
                \o
                (IF spy_shown
                 THEN << [name |-> "SPY", x |-> DateColumn(filtered_spy_prices.rows),
                          y |-> CloseColumn(filtered_spy_prices.rows)] >>
                 ELSE <<>>)]

\* the SPY histories the chart is explored with
SpyChartDates == {<<2024, 3, 28, 0>>, <<2024, 5, 15, 0>>}
SpyChartCloses == {0, 100}
SpyChartPayloads == PayloadsOf(SpyChartDates, SpyChartCloses)

\* the price history of the reference run: the other inputs of the page are
\* explored in full beside it
ReferencePayload ==
    [has |-> TRUE,
     historical |-> << [date |-> <<2024, 5, 15, 0>>, close |-> 121],
                       [date |-> <<2024, 3, 28, 0>>, close |-> 110],
                       [date |-> <<2024, 1, 2, 0>>, close |-> 100] >>]

\* the widget settings and SPY response explored on `day` with the prices `data`
ChartInputsOn(day, data) ==
    {[chart_view |-> v, add_spy |-> FALSE, rebase |-> r, spy |-> NoData] :
        v \in ChartViews, r \in IF day \in RunDates THEN BOOLEAN ELSE {FALSE}}
    \cup
    (IF day \in RunDates /\ data = ReferencePayload
     THEN {[chart_view |-> v, add_spy |-> TRUE, rebase |-> r, spy |-> sp] :
            v \in ChartViews, r \in BOOLEAN, sp \in SpyChartPayloads}
     ELSE {})

(* financial statements *)
\* one quarter of the income statement, as the API's JSON gives it
IncomePeriods ==
    { [revenue |-> 100, grossProfit |-> 40, netIncome |-> 10,
       weightedAverageShsOut |-> 10, eps |-> 1],
      [revenue |-> 0, grossProfit |-> 0, netIncome |-> -5,
       weightedAverageShsOut |-> 10, eps |-> 0],
      [revenue |-> 200, grossProfit |-> 100, netIncome |-> 20,
       weightedAverageShsOut |-> 0, eps |-> 2] }
CashflowPeriods == { [freeCashFlow |-> 0], [freeCashFlow |-> 50] }

NoResponse == [ok |-> FALSE, data |-> <<>>]

SeqsUpTo(S, n) == UNION {[1..len -> S] : len \in 0..n}

\* a response to a statement request: ok = (status_code == 200), data newest first
StatementResponses(S) ==
    {NoResponse} \cup {[ok |-> TRUE, data |-> q] : q \in SeqsUpTo(S, MaxPeriods)}

\* get_financial_statements
get_financial_statements(response) ==
    IF response.ok /\ response.data # <<>> THEN Frame(response.data) ELSE NoFrame

\* the response left newest first: the flip of lines 76-77 forgotten
Reverse_unflipped(q) == q

\* df.iloc[::-1].reset_index(drop=True)
Reverse(q) == [i \in 1..Len(q) |-> q[Len(q) + 1 - i]]

\* df[column].iloc[-4:]
Last4(rows, column) ==
    LET first == IF Len(rows) > 4 THEN Len(rows) - 3 ELSE 1
    IN  [i \in 1..(Len(rows) + 1 - first) |-> Rat(rows[first + i - 1][column])]

\* Series.mean() of a non-empty series
Mean(q) == FDiv(SumOf(q), Rat(Len(q)))

NoMetrics == [isNone |-> TRUE, Current |-> <<>>, TTM |-> <<>>]

\* calculate_financial_metrics, given the two responses
calculate_financial_metrics(income_response, cashflow_response) ==
    LET fetched_income == get_financial_statements(income_response)
        fetched_cashflow == get_financial_statements(cashflow_response)
    IN  IF ~fetched_income.isNone /\ ~fetched_cashflow.isNone THEN
            LET income_statement == Reverse(fetched_income.rows)
                cashflow_statement == Reverse(fetched_cashflow.rows)
                revenue == Rat(ILocBack(income_statement, 1).revenue)
                gross_profit == Rat(ILocBack(income_statement, 1).grossProfit)
                net_income == Rat(ILocBack(income_statement, 1).netIncome)
                weighted_avg_shares ==
                    Rat(ILocBack(income_statement, 1).weightedAverageShsOut)
                eps == Rat(ILocBack(income_statement, 1).eps)
                free_cash_flow == Rat(ILocBack(cashflow_statement, 1).freeCashFlow)
                fcf_per_share ==
                    IF Truthy(weighted_avg_shares)
                    THEN FDiv(free_cash_flow, weighted_avg_shares) ELSE None
                gross_margin == IF Truthy(revenue) THEN FDiv(gross_profit, revenue) ELSE None
                net_income_margin ==
                    IF Truthy(revenue) THEN FDiv(net_income, revenue) ELSE None
                ttm_revenue == SumOf(Last4(income_statement, "revenue"))
                ttm_gross_profit == SumOf(Last4(income_statement, "grossProfit"))
                ttm_net_income == SumOf(Last4(income_statement, "netIncome"))
                ttm_free_cash_flow == SumOf(Last4(cashflow_statement, "freeCashFlow"))
                ttm_fcf_per_share ==
                    IF Truthy(weighted_avg_shares)
                    THEN FDiv(ttm_free_cash_flow,
                              Mean(Last4(income_statement, "weightedAverageShsOut")))
                    ELSE None
                ttm_eps == SumOf(Last4(income_statement, "eps"))
                yoy_revenue_growth ==
                    IF Len(income_statement) > 4
                       /\ Truthy(Rat(ILocBack(income_statement, 5).revenue))
                    THEN FSub(FDiv(revenue, Rat(ILocBack(income_statement, 5).revenue)), Rat(1))
                    ELSE None
                yoy_eps_growth ==
                    IF Len(income_statement) > 4
                       /\ Truthy(Rat(ILocBack(income_statement, 5).eps))
                    THEN FSub(FDiv(eps, Rat(ILocBack(income_statement, 5).eps)), Rat(1))
                    ELSE None
                yoy_fcf_growth ==
                    IF Len(cashflow_statement) > 4
                       /\ Truthy(Rat(ILocBack(cashflow_statement, 5).freeCashFlow))
                    THEN FSub(FDiv(free_cash_flow,
                                   Rat(ILocBack(cashflow_statement, 5).freeCashFlow)), Rat(1))
                    ELSE None
            IN  [isNone |-> FALSE,
                 Current |->
                    [Revenue |-> revenue, GrossProfit |-> gross_profit,
                     NetIncome |-> net_income, GrossMargin |-> gross_margin,
                     NetIncomeMargin |-> net_income_margin,
                     FreeCashFlow |-> free_cash_flow, FCFperShare |-> fcf_per_share,
                     EPS |-> eps, YoYRevenueGrowth |-> yoy_revenue_growth,
                     YoYEPSGrowth |-> yoy_eps_growth, YoYFCFGrowth |-> yoy_fcf_growth],
                 TTM |->
                    [Revenue |-> ttm_revenue, GrossProfit |-> ttm_gross_profit,
                     NetIncome |-> ttm_net_income,
                     GrossMargin |->
                        IF Truthy(ttm_revenue)
                        THEN FDiv(ttm_gross_profit, ttm_revenue) ELSE None,
                     NetIncomeMargin |->
                        IF Truthy(ttm_revenue)
                        THEN FDiv(ttm_net_income, ttm_revenue) ELSE None,
                     FreeCashFlow |-> ttm_free_cash_flow,
                     FCFperShare |-> ttm_fcf_per_share, EPS |-> ttm_eps,
                     YoYRevenueGrowth |-> None, YoYEPSGrowth |-> None,
                     YoYFCFGrowth |-> None]]
        ELSE NoMetrics

MetricNames ==
    {"Revenue", "GrossProfit", "NetIncome", "GrossMargin", "NetIncomeMargin",
     "FreeCashFlow", "FCFperShare", "EPS", "YoYRevenueGrowth", "YoYEPSGrowth",
     "YoYFCFGrowth"}

\* lines 319-331: pd.to_numeric(errors="coerce") turns None into NaN, and the
\* styler prints "{:.2f}", "N/A" for NaN
MetricCell(x) == IF x.k = "None" \/ x.k = "nan" THEN NA ELSE Format2f(x)

(* ------------------------------- state --------------------------------- *)
VARIABLES
    page,                   \* "idle", "dashboard" or "deepdive": the script running
    pc,                     \* where the script stands: "loop", "chart", ..., "done", "error"
    exception,              \* the uncaught exception that ended the run, "none" otherwise
    today,                  \* datetime.today() of the run
    portfolio,              \* Dashboard.py: the loaded portfolio table
    fetched,                \* the API's responses for the holdings, in loop order
    performance_data,       \* Dashboard.py line 107
    performance_df,         \* Dashboard.py lines 127-144
    spy_data,               \* the API's response for SPY
    spy_returns,            \* spy_qtd_return, spy_daily_return (line 147)
    portfolio_returns,      \* portfolio_qtd_return, portfolio_daily_return (line 148)
    deltas,                 \* qtd_delta, daily_delta (lines 151-152)
    summary_table,          \* lines 155-160
    dive_data,              \* deep dive: the API's response for the ticker's prices
    stock_prices,           \* deep dive line 206
    returns,                \* day_return, qtd_return (line 208)
    sidebar,                \* the two st.metric texts (lines 222-223)
    chart,                  \* the widgets, the SPY response and the figure (lines 228-313)
    statements,             \* the API's two statement responses
    metrics_df,             \* line 315
    metrics_shown           \* the table as displayed (lines 319-331)

dashVars == <<portfolio, fetched, performance_data, performance_df, spy_data,
              spy_returns, portfolio_returns, deltas, summary_table>>
diveVars == <<dive_data, stock_prices, returns, sidebar, chart, statements,
              metrics_df, metrics_shown>>
vars == <<page, pc, exception, today, dashVars, diveVars>>

Unset == [k |-> "unset", n |-> 0, d |-> 1]
NoDate == <<0, 0, 0, 0>>
UnsetSpy == [spy_qtd_return |-> Unset, spy_daily_return |-> Unset]
UnsetPortfolio == [portfolio_qtd_return |-> Unset, portfolio_daily_return |-> Unset]
UnsetDeltas == [qtd_delta |-> Unset, daily_delta |-> Unset]
UnsetTable == [Portfolio |-> <<>>, SPY |-> <<>>, Delta |-> <<>>]

DashInit ==
    /\ portfolio = <<>>
    /\ fetched = <<>>
    /\ performance_data = <<>>
    /\ performance_df = <<>>
    /\ spy_data = NoData
    /\ spy_returns = UnsetSpy
    /\ portfolio_returns = UnsetPortfolio
    /\ deltas = UnsetDeltas
    /\ summary_table = UnsetTable

UnsetReturns == [day_return |-> Unset, qtd_return |-> Unset]
UnsetSidebar == [DayReturn |-> Unset, QTDReturn |-> Unset]
UnsetChart == [chart_view |-> "", add_spy |-> FALSE, rebase |-> FALSE, spy |-> NoData,
               start_date |-> NoDate, traces |-> <<>>]
UnsetStatements == [income |-> NoResponse, cashflow |-> NoResponse]
UnsetShown == [Current |-> <<>>, TTM |-> <<>>]

DiveInit ==
    /\ dive_data = NoData
    /\ stock_prices = NoFrame
    /\ returns = UnsetReturns
    /\ sidebar = UnsetSidebar
    /\ chart = UnsetChart
    /\ statements = UnsetStatements
    /\ metrics_df = NoMetrics
    /\ metrics_shown = UnsetShown

Init ==
    /\ page = "idle"
    /\ pc = "idle"
    /\ exception = "none"
    /\ today = NoDate
    /\ DashInit
    /\ DiveInit

(* ----------------------- Dashboard.py, the script ---------------------- *)
\* lines 95-104: the password, the file, the portfolio
OpenDashboard ==
    /\ page = "idle"
    /\ \E day \in EvalDates, passwordMatches \in BOOLEAN,
          folderFile \in PortfolioFiles, uploaded_file \in PortfolioFiles \cup {NoFile} :
        LET file_to_load ==
                authenticate_and_load_portfolio(passwordMatches, folderFile, uploaded_file)
        IN  /\ page' = "dashboard"
            /\ today' = day
            /\ exception' = "none"
            /\ IF file_to_load # NoFile
               THEN /\ portfolio' = load_portfolio_from_file(file_to_load)
                    /\ pc' = "loop"
               ELSE /\ portfolio' = <<>>
                    /\ pc' = "done"
            /\ UNCHANGED <<fetched, performance_data, performance_df, spy_data,
                           spy_returns, portfolio_returns, deltas, summary_table>>
    /\ UNCHANGED diveVars

\* lines 108-124: one iteration of the loop over the portfolio's rows
FetchHolding ==
    /\ page = "dashboard"
    /\ pc = "loop"
    /\ Len(fetched) < Len(portfolio)
    /\ \E data \in DashPayloadsOn(today, Len(portfolio)) :
       \E got \in {get_stock_price(data, today)} :
        LET row == portfolio[Len(fetched) + 1]
        IN  /\ fetched' = Append(fetched, data)
            /\ IF got.exc # "none"
               THEN /\ pc' = "error"
                    /\ exception' = got.exc
                    /\ UNCHANGED performance_data
               ELSE /\ performance_data' = performance_data \o performance_row(row, got)
                    /\ UNCHANGED <<pc, exception>>
    /\ UNCHANGED <<page, today, portfolio, performance_df, spy_data, spy_returns,
                   portfolio_returns, deltas, summary_table>>
    /\ UNCHANGED diveVars

\* lines 126-168: the table, SPY, the portfolio figures, the deltas, the summary
Summarize ==
    /\ page = "dashboard"
    /\ pc = "loop"
    /\ Len(fetched) = Len(portfolio)
    /\ \E data \in DashPayloadsOn(today, Len(portfolio)) :
       \E df \in {build_performance_df(performance_data)},
          got \in {get_stock_price(data, today)} :
       \E spy \in {get_sp500_performance(got)},
          pf \in {calculate_portfolio_performance(df)} :
            /\ performance_df' = df
            /\ spy_data' = data
            /\ IF got.exc # "none"
               THEN \* line 147 raises
                    /\ pc' = "error"
                    /\ exception' = got.exc
                    /\ UNCHANGED <<spy_returns, portfolio_returns, deltas, summary_table>>
               ELSE /\ spy_returns' = spy
                    /\ portfolio_returns' = pf
                    /\ IF spy.spy_qtd_return = None \/ spy.spy_daily_return = None
                       THEN \* line 151 (152): float - None
                            /\ pc' = "error"
                            /\ exception' = "TypeError"
                            /\ UNCHANGED <<deltas, summary_table>>
                       ELSE LET qtd_delta == FSub(pf.portfolio_qtd_return, spy.spy_qtd_return)
                                daily_delta == FSub(pf.portfolio_daily_return,
                                                    spy.spy_daily_return)
                            IN  /\ deltas' = [qtd_delta |-> qtd_delta,
                                              daily_delta |-> daily_delta]
                                /\ summary_table' =
                                     [Portfolio |-> <<Format2f(pf.portfolio_qtd_return),
                                                      Format2f(pf.portfolio_daily_return)>>,
                                      SPY |-> <<Format2f(spy.spy_qtd_return),
                                                Format2f(spy.spy_daily_return)>>,
                                      Delta |-> <<Format2f(qtd_delta), Format2f(daily_delta)>>]
                                /\ pc' = "done"
                                /\ UNCHANGED exception
    /\ UNCHANGED <<page, today, portfolio, fetched, performance_data>>
    /\ UNCHANGED diveVars

(* ------------------ pages/1_Stock_Deep_Dive.py, the script ------------- *)
\* lines 202-223: the ticker, its prices, the returns, the sidebar
OpenDeepDive ==
    /\ page = "idle"
    /\ \E day \in EvalDates, ticker_entered \in BOOLEAN :
       \E data \in DivePayloadsOn(day) :
       \E got \in {get_historical_prices(data)} :
       \E ret \in {calculate_returns(got.prices, day)} :
            /\ page' = "deepdive"
            /\ today' = day
            /\ IF ~ticker_entered
               THEN /\ pc' = "done"
                    /\ exception' = "none"
                    /\ UNCHANGED <<dive_data, stock_prices, returns, sidebar>>
               ELSE /\ dive_data' = data
                    /\ IF got.exc # "none"
                       THEN /\ pc' = "error"
                            /\ exception' = got.exc
                            /\ UNCHANGED <<stock_prices, returns, sidebar>>
                       ELSE /\ stock_prices' = got.prices
                            /\ IF ret.exc # "none"
                               THEN /\ pc' = "error"
                                    /\ exception' = ret.exc
                                    /\ UNCHANGED <<returns, sidebar>>
                               ELSE /\ returns' = [day_return |-> ret.day_return,
                                                   qtd_return |-> ret.qtd_return]
                                    /\ sidebar' = [DayReturn |-> MetricText(ret.day_return),
                                                   QTDReturn |-> MetricText(ret.qtd_return)]
                                    /\ pc' = IF got.prices.isNone THEN "done" ELSE "chart"
                                    /\ exception' = "none"
    /\ UNCHANGED <<chart, statements, metrics_df, metrics_shown>>
    /\ UNCHANGED dashVars

\* lines 225-313: the chart
DrawChart ==
    /\ page = "deepdive"
    /\ pc = "chart"
    /\ \E in \in ChartInputsOn(today, dive_data) :
       \E spy \in {IF in.add_spy THEN get_historical_prices(in.spy)
                    ELSE [exc |-> "none", prices |-> NoFrame]} :
       \E fig \in {chart_traces(stock_prices, spy.prices, in.chart_view, in.add_spy,
                                in.rebase, today)} :
            /\ IF spy.exc # "none"
               THEN /\ pc' = "error"
                    /\ exception' = spy.exc
                    /\ chart' = [chart_view |-> in.chart_view, add_spy |-> in.add_spy,
                                 rebase |-> in.rebase, spy |-> in.spy,
                                 start_date |-> start_date(in.chart_view, today),
                                 traces |-> <<>>]
               ELSE /\ chart' = [chart_view |-> in.chart_view, add_spy |-> in.add_spy,
                                 rebase |-> in.rebase, spy |-> in.spy,
                                 start_date |-> fig.start_date, traces |-> fig.traces]
                    /\ IF fig.exc # "none"
                       THEN /\ pc' = "error"
                            /\ exception' = fig.exc
                       ELSE /\ pc' = "metrics"
                            /\ UNCHANGED exception
    /\ UNCHANGED <<page, today, dive_data, stock_prices, returns, sidebar, statements,
                   metrics_df, metrics_shown>>
    /\ UNCHANGED dashVars

TypicalStatements ==
    [income |-> [ok |-> TRUE,
                 data |-> << [revenue |-> 100, grossProfit |-> 40, netIncome |-> 10,
                              weightedAverageShsOut |-> 10, eps |-> 1] >>],
     cashflow |-> [ok |-> TRUE, data |-> << [freeCashFlow |-> 50] >>]]

\* the responses every response of the other statement is paired with
IncomeSamples ==
    {NoResponse, TypicalStatements.income,
     [ok |-> TRUE,
      data |-> << [revenue |-> 200, grossProfit |-> 100, netIncome |-> 20,
                   weightedAverageShsOut |-> 0, eps |-> 2],
                  [revenue |-> 100, grossProfit |-> 40, netIncome |-> 10,
                   weightedAverageShsOut |-> 10, eps |-> 1] >>]}
CashflowSamples ==
    {NoResponse, TypicalStatements.cashflow,
     [ok |-> TRUE, data |-> << [freeCashFlow |-> 50], [freeCashFlow |-> 0] >>]}

\* the statement responses explored after the chart `ch` of the prices `data`
StatementInputsOn(day, data, ch) ==
    IF day \in RunDates /\ data = ReferencePayload
       /\ ch.chart_view = "QTD" /\ ~ch.add_spy /\ ~ch.rebase
    THEN {[income |-> i, cashflow |-> c] :
            i \in StatementResponses(IncomePeriods), c \in CashflowSamples}
         \cup
         {[income |-> i, cashflow |-> c] :
            i \in IncomeSamples, c \in StatementResponses(CashflowPeriods)}
    ELSE {TypicalStatements}

\* lines 314-332: the financial metrics table.  The chart and the sidebar are
\* rendered by now and nothing below reads them or the prices again: they are
\* dropped here.  (The earnings date and the analyst estimates that follow
\* only display further API responses.)
ShowMetrics ==
    /\ page = "deepdive"
    /\ pc = "metrics"
    /\ \E in \in StatementInputsOn(today, dive_data, chart) :
       \E df \in {calculate_financial_metrics(in.income, in.cashflow)} :
            /\ statements' = in
            /\ metrics_df' = df
            /\ metrics_shown' =
                 IF df.isNone THEN UnsetShown
                 ELSE [Current |-> [m \in MetricNames |-> MetricCell(df.Current[m])],
                       TTM |-> [m \in MetricNames |-> MetricCell(df.TTM[m])]]
    /\ pc' = "done"
    /\ dive_data' = NoData
    /\ stock_prices' = NoFrame
    /\ returns' = UnsetReturns
    /\ sidebar' = UnsetSidebar
    /\ chart' = UnsetChart
    /\ UNCHANGED <<page, today, exception>>
    /\ UNCHANGED dashVars

\* the run is over (rendered, or ended by the exception); the next one starts afresh
EndRun ==
    /\ pc \in {"done", "error"}
    /\ page' = "idle"
    /\ pc' = "idle"
    /\ exception' = "none"
    /\ today' = NoDate
    /\ portfolio' = <<>>
    /\ fetched' = <<>>
    /\ performance_data' = <<>>
    /\ performance_df' = <<>>
    /\ spy_data' = NoData
    /\ spy_returns' = UnsetSpy
    /\ portfolio_returns' = UnsetPortfolio
    /\ deltas' = UnsetDeltas
    /\ summary_table' = UnsetTable
    /\ dive_data' = NoData
    /\ stock_prices' = NoFrame
    /\ returns' = UnsetReturns
    /\ sidebar' = UnsetSidebar
    /\ chart' = UnsetChart
    /\ statements' = UnsetStatements
    /\ metrics_df' = NoMetrics
    /\ metrics_shown' = UnsetShown

Next ==
    \/ OpenDashboard
    \/ FetchHolding
    \/ Summarize
    \/ OpenDeepDive
    \/ DrawChart
    \/ ShowMetrics
    \/ EndRun

Spec == Init /\ [][Next]_vars

(* ============================== the claims ============================= *)
(* What the specification says, stated over the API's responses as they    *)
(* arrive (newest first): h[1] is the last point, h[2] the one before.     *)

\* (a - b) / b * 100 of two closes, b # 0
PctOf(a, b) == Num((a - b) * 100, b)

\* the last calendar day of the quarter before the one `day` lies in
QuarterBoundary(day) ==
    IF day[2] \in 1..3 THEN <<day[1] - 1, 12, 31, 0>>
    ELSE IF day[2] \in 4..6 THEN <<day[1], 3, 31, 0>>
    ELSE IF day[2] \in 7..9 THEN <<day[1], 6, 30, 0>>
    ELSE <<day[1], 9, 30, 0>>

\* the points of h on or before the boundary, and the latest of them
OnOrBefore(h, bound) == {i \in 1..Len(h) : DateLE(h[i].date, bound)}
ReferenceIndex(h, bound) ==
    CHOOSE i \in OnOrBefore(h, bound) :
        \A j \in OnOrBefore(h, bound) : DateLE(h[j].date, h[i].date)

\* the rows of the dashboard's table that belong to holding i
RowsOfHolding(i) ==
    {k \in 1..Len(performance_data) : performance_data[k].Ticker = portfolio[i].Tickers}

\* the dashboard is in, or was stopped in, its loop over the holdings
InHoldingsLoop == page = "dashboard" /\ spy_data = NoData /\ spy_returns = UnsetSpy
\* the deep dive has its prices and has not reached the chart
BeforeChart == page = "deepdive" /\ dive_data.has /\ chart = UnsetChart
\* the dashboard has run get_sp500_performance and calculate_portfolio_performance
Summarized == page = "dashboard" /\ portfolio_returns # UnsetPortfolio

(* C1: for every price sequence the day return is (last - secondLast) /    *)
(* secondLast * 100 when it has at least 2 points and is unavailable, not  *)
(* an error, when it has fewer; on the dashboard and on the deep dive.     *)
C1_DayReturn ==
    /\ BeforeChart =>
        LET h == dive_data.historical
        IN  /\ exception = "none"
            /\ (Len(h) >= 2 /\ h[2].close # 0) =>
                    returns.day_return = PctOf(h[1].close, h[2].close)
            /\ Len(h) < 2 => returns.day_return = None
    /\ InHoldingsLoop =>
        \A i \in 1..Len(fetched) :
            LET h == fetched[i].historical
            IN  fetched[i].has =>
                /\ Len(h) < 2 => (exception = "none" /\ RowsOfHolding(i) = {})
                /\ Len(h) >= 2 =>
                     \A k \in RowsOfHolding(i) :
                        performance_data[k].DayGain = PctOf(h[1].close, h[2].close)

\* the part of C1 the code keeps: histories of two points or more
C1_DayReturnOfTwoPoints ==
    /\ (BeforeChart /\ Len(dive_data.historical) >= 2) =>
        LET h == dive_data.historical
        IN  /\ exception = "none"
            /\ h[2].close # 0 => returns.day_return = PctOf(h[1].close, h[2].close)
    /\ InHoldingsLoop =>
        \A i \in 1..Len(fetched) : \A k \in RowsOfHolding(i) :
            LET h == fetched[i].historical
            IN  performance_data[k].DayGain = PctOf(h[1].close, h[2].close)

(* C2: the quarter return is (last - reference) / reference * 100, the     *)
(* reference being the close of the last point dated on or before the      *)
(* quarter boundary; with no such point it is unavailable.  On the         *)
(* dashboard and on the deep dive.                                         *)
QuarterReturnOf(h, day) ==
    IF OnOrBefore(h, QuarterBoundary(day)) = {} THEN None
    ELSE PctOf(h[1].close, h[ReferenceIndex(h, QuarterBoundary(day))].close)

HasReference(h, day) ==
    /\ OnOrBefore(h, QuarterBoundary(day)) # {}
    /\ h[ReferenceIndex(h, QuarterBoundary(day))].close # 0

\* the dashboard's part of C2
C2_Dashboard ==
    InHoldingsLoop =>
        \A i \in 1..Len(fetched) :
            LET h == fetched[i].historical
            IN  /\ \A k \in RowsOfHolding(i) :
                     performance_data[k].QuarterlyReturn = QuarterReturnOf(h, today)
                /\ (Len(h) >= 2 /\ OnOrBefore(h, QuarterBoundary(today)) = {}) =>
                     RowsOfHolding(i) = {}

\* the deep dive's part of C2
C2_DeepDive ==
    (BeforeChart /\ Len(dive_data.historical) >= 2) =>
        LET h == dive_data.historical
        IN  /\ HasReference(h, today) => returns.qtd_return = QuarterReturnOf(h, today)
            /\ OnOrBefore(h, QuarterBoundary(today)) = {} => returns.qtd_return = None

\* C2, on both pages
C2_QuarterReturn == C2_Dashboard /\ C2_DeepDive

(* C3: the portfolio quarter and day returns are the weighted sums         *)
(* Sigma(weight_i * return_i) / 100 over the included holdings, of the     *)
(* holdings' actual weights and computed returns.                          *)
WeightedSum(rows, column) ==
    FDiv(SumOf([k \in 1..Len(rows) |-> FMul(rows[k].Weight, rows[k][column])]), Rat(100))

C3_WeightedSum ==
    Summarized =>
        /\ portfolio_returns.portfolio_qtd_return =
                WeightedSum(performance_data, "QuarterlyReturn")
        /\ portfolio_returns.portfolio_daily_return =
                WeightedSum(performance_data, "DayGain")

(* C4: a holding is left out of the weighted sums exactly when its returns *)
(* could not be computed; every other holding contributes weight * return, *)
(* and the weights of the remaining holdings are not renormalized.         *)
Computable(data, day) ==
    /\ data.has
    /\ Len(data.historical) >= 2
    /\ data.historical[2].close # 0
    /\ HasReference(data.historical, day)

RECURSIVE ContributionsUpTo(_, _)
ContributionsUpTo(n, quarter) ==
    IF n = 0 THEN Rat(0)
    ELSE LET h == fetched[n].historical
             rest == ContributionsUpTo(n - 1, quarter)
         IN  IF Computable(fetched[n], today)
             THEN FAdd(rest,
                       FMul(portfolio[n].Weights,
                            IF quarter THEN QuarterReturnOf(h, today)
                            ELSE PctOf(h[1].close, h[2].close)))
             ELSE rest

C4_ExcludedExactlyWhenUnavailable ==
    Summarized =>
        /\ \A i \in 1..Len(fetched) :
                Computable(fetched[i], today) <=> RowsOfHolding(i) # {}
        /\ portfolio_returns.portfolio_qtd_return =
                FDiv(ContributionsUpTo(Len(fetched), TRUE), Rat(100))
        /\ portfolio_returns.portfolio_daily_return =
                FDiv(ContributionsUpTo(Len(fetched), FALSE), Rat(100))

\* the part of C4 the code keeps: a holding with no payload, or with no
\* point on or before the boundary, is in no row, and the sums are over the
\* rows of the table, divided by 100
C4_NoRowWithoutPrices ==
    /\ InHoldingsLoop =>
        \A i \in 1..Len(fetched) :
            (~fetched[i].has \/ OnOrBefore(fetched[i].historical, QuarterBoundary(today)) = {})
                => RowsOfHolding(i) = {}
    /\ Summarized =>
        portfolio_returns.portfolio_qtd_return = WeightedSum(performance_df, "QuarterlyReturn")

(* C5: with no usable payload for a ticker, SPY included, every figure     *)
(* that depends on it is unavailable and shown as a placeholder, and the   *)
(* run does not end in a fatal error.                                      *)
SpyCalled == page = "dashboard" /\ spy_returns # UnsetSpy

C5_NoPayloadNoFatalError ==
    /\ InHoldingsLoop =>
        \A i \in 1..Len(fetched) : ~fetched[i].has => RowsOfHolding(i) = {}
    /\ (InHoldingsLoop /\ \A i \in 1..Len(fetched) : ~fetched[i].has) => exception = "none"
    /\ (SpyCalled /\ ~spy_data.has) =>
        /\ pc = "done"
        /\ exception = "none"
        /\ summary_table.SPY = <<NA, NA>>
        /\ summary_table.Delta = <<NA, NA>>

(* C6: a holding, or SPY, with at least 2 points and none on or before the *)
(* quarter boundary has no quarter return, and its day return is still     *)
(* computed and reported.                                                  *)
NoQuarterHistory(data, day) ==
    /\ data.has
    /\ Len(data.historical) >= 2
    /\ data.historical[2].close # 0
    /\ OnOrBefore(data.historical, QuarterBoundary(day)) = {}

C6_DayReturnWithoutQuarter ==
    /\ InHoldingsLoop =>
        \A i \in 1..Len(fetched) :
            NoQuarterHistory(fetched[i], today) =>
                \E k \in RowsOfHolding(i) :
                    performance_data[k].DayGain =
                        PctOf(fetched[i].historical[1].close, fetched[i].historical[2].close)
    /\ (page = "dashboard" /\ pc \in {"done", "error"} /\ NoQuarterHistory(spy_data, today)) =>
        /\ exception = "none"
        /\ spy_returns.spy_qtd_return = None
        /\ spy_returns.spy_daily_return =
                PctOf(spy_data.historical[1].close, spy_data.historical[2].close)

(* C7: every ratio guards its own denominator: a zero denominator gives an *)
(* unavailable value, never an exception, infinity or NaN, and a ratio     *)
(* whose own denominator is not zero is computed.                          *)
Finite(x) == x.k \notin {"inf", "nan"}

\* the sum of a column over the last (at most) 4 periods: the first of the response
RECURSIVE SumNewest(_, _, _)
SumNewest(data, column, n) ==
    IF n = 0 \/ data = <<>> THEN 0
    ELSE Head(data)[column] + SumNewest(Tail(data), column, n - 1)

\* x is unavailable exactly when the denominator is zero
GuardedBy(x, denominator) == (x = None <=> denominator = 0) /\ Finite(x)

\* the financial metrics' part of C7
C7_Metrics ==
    ~metrics_df.isNone =>
        LET inc == statements.income.data
        IN  /\ GuardedBy(metrics_df.Current.GrossMargin, inc[1].revenue)
            /\ GuardedBy(metrics_df.Current.NetIncomeMargin, inc[1].revenue)
            /\ GuardedBy(metrics_df.Current.FCFperShare, inc[1].weightedAverageShsOut)
            /\ GuardedBy(metrics_df.TTM.GrossMargin, SumNewest(inc, "revenue", 4))
            /\ GuardedBy(metrics_df.TTM.NetIncomeMargin, SumNewest(inc, "revenue", 4))
            /\ GuardedBy(metrics_df.TTM.FCFperShare,
                         SumNewest(inc, "weightedAverageShsOut", 4))

\* the dashboard's part of C7: no return of a holding or of SPY, and no delta,
\* is infinite or NaN, and a zero prior close of SPY gives no day return
C7_Dashboard ==
    /\ \A k \in 1..Len(performance_data) :
            Finite(performance_data[k].QuarterlyReturn) /\ Finite(performance_data[k].DayGain)
    /\ (SpyCalled /\ spy_data.has) =>
        /\ Finite(spy_returns.spy_daily_return)
        /\ spy_data.historical[2].close = 0 => spy_returns.spy_daily_return = None
        /\ Finite(spy_returns.spy_qtd_return)
        /\ Finite(deltas.qtd_delta) /\ Finite(deltas.daily_delta)

\* the deep dive's returns' part of C7
C7_DeepDive ==
    (BeforeChart /\ exception = "none") =>
        /\ GuardedBy(returns.day_return, dive_data.historical[2].close)
        /\ Finite(returns.qtd_return)

\* the chart's part of C7: no rebased value is infinite or NaN
C7_Rebase ==
    \A t \in 1..Len(chart.traces) : \A i \in 1..Len(chart.traces[t].y) :
        Finite(chart.traces[t].y[i])

\* C7, all of it
C7_GuardedRatios == C7_Metrics /\ C7_Dashboard /\ C7_DeepDive /\ C7_Rebase

(* C8: the performance contribution shown for a holding is weight *        *)
(* quarterReturnPct / 100, and the contributions of the included holdings  *)
(* add up to the reported portfolio quarter return.                        *)
C8_ContributionsReconcile ==
    Summarized =>
        /\ \A k \in 1..Len(performance_df) :
                performance_df[k].PerformanceContribution =
                    FDiv(FMul(performance_data[k].Weight,
                              performance_data[k].QuarterlyReturn), Rat(100))
        /\ SumOf([k \in 1..Len(performance_df) |->
                    performance_df[k].PerformanceContribution])
                = portfolio_returns.portfolio_qtd_return

(* C9: the quarter boundary is the last calendar day of the quarter before *)
(* the one that holds the evaluation date: Mar 31, Jun 30 or Sep 30 of the *)
(* same year, or Dec 31 of the year before; the dashboard, the deep dive's *)
(* returns and the QTD chart window use that same boundary.                *)
RunStarted == today # NoDate

C9_QuarterBoundary ==
    RunStarted =>
        /\ previous_quarter_end(today) = QuarterBoundary(today)
        /\ qtd_start_date(today) = QuarterBoundary(today)
        /\ chart.chart_view = "QTD" => chart.start_date = QuarterBoundary(today)

\* a run in January whose QTD chart starts on Dec 31 of the year before
C9_Witness ==
    /\ today[2] = 1
    /\ chart.chart_view = "QTD"
    /\ chart.start_date = <<today[1] - 1, 12, 31, 0>>

(* C10: YoY growth of Revenue, EPS and FCF is current / period[-5] - 1     *)
(* when the statement has at least 5 periods, and unavailable when it has  *)
(* fewer.                                                                  *)
GrowthOf(data, column) == FSub(Num(data[1][column], data[5][column]), Rat(1))

\* growth is the number g with g = current / period[-5] - 1
IsGrowth(g, data, column) ==
    /\ IsNum(g)
    /\ data[5][column] # 0 => g = GrowthOf(data, column)

\* C10 as stated: with 5 periods or more the growth is a value, whatever
\* period[-5] is; with fewer it is unavailable
C10_YoYGrowthAsStated ==
    ~metrics_df.isNone =>
        LET inc == statements.income.data
            cf  == statements.cashflow.data
            now == metrics_df.Current
        IN  /\ Len(inc) < 5 => (now.YoYRevenueGrowth = None /\ now.YoYEPSGrowth = None)
            /\ Len(cf) < 5 => now.YoYFCFGrowth = None
            /\ Len(inc) >= 5 =>
                    /\ IsGrowth(now.YoYRevenueGrowth, inc, "revenue")
                    /\ IsGrowth(now.YoYEPSGrowth, inc, "eps")
            /\ Len(cf) >= 5 => IsGrowth(now.YoYFCFGrowth, cf, "freeCashFlow")

\* C10 as the code has it: growth is current / period[-5] - 1 with 5 periods
\* or more and period[-5] not zero; it is unavailable with fewer than 5
\* periods and when period[-5] is zero
C10_YoYGrowth ==
    ~metrics_df.isNone =>
        LET inc == statements.income.data
            cf  == statements.cashflow.data
            now == metrics_df.Current
        IN  /\ now.YoYRevenueGrowth =
                IF Len(inc) >= 5 /\ inc[5].revenue # 0
                THEN GrowthOf(inc, "revenue") ELSE None
            /\ now.YoYEPSGrowth =
                IF Len(inc) >= 5 /\ inc[5].eps # 0 THEN GrowthOf(inc, "eps") ELSE None
            /\ now.YoYFCFGrowth =
                IF Len(cf) >= 5 /\ cf[5].freeCashFlow # 0
                THEN GrowthOf(cf, "freeCashFlow") ELSE None

\* five income periods, EPS of the oldest not zero and different from the
\* current one: EPS growth is eps4 / eps0 - 1, not zero
C10_Witness ==
    /\ ~metrics_df.isNone
    /\ Len(statements.income.data) = 5
    /\ Len(statements.cashflow.data) < 5
    /\ statements.income.data[5].eps = 1
    /\ statements.income.data[1].eps = 2
    /\ metrics_df.Current.YoYEPSGrowth = Rat(1)
    /\ metrics_df.Current.YoYFCFGrowth = None

(* C11: rebasing a non-empty filtered window maps each price p_i to        *)
(* (p_i / p_0 - 1) * 100, p_0 the first in-window price, so every rebased  *)
(* series starts at 0; the window keeps exactly the points dated on or     *)
(* after the boundary (QTD: previous quarter end, YTD: Dec 31 of the prior *)
(* year, 1Y: today - 366 days); for the stock and for the optional SPY.    *)
\* the boundary of a chart view, a calendar date
WindowBoundary(chart_view, day) ==
    IF chart_view = "QTD" THEN QuarterBoundary(day)
    ELSE IF chart_view = "YTD" THEN <<day[1] - 1, 12, 31, 0>>
    ELSE MinusDays(<<day[1], day[2], day[3], 0>>, 366)

\* the points of h (newest first) dated on or after bound, oldest first
WindowOf(h, bound) ==
    LET OnOrAfter(p) == DateLE(bound, p.date)
    IN  SelectSeq([i \in 1..Len(h) |-> h[Len(h) + 1 - i]], OnOrAfter)

\* w rebased on its first price, which is not zero
RebasedOn(w) == [i \in 1..Len(w) |-> Num((w[i].close - w[1].close) * 100, w[1].close)]

\* the traces of the figure named `name`
TracesNamed(name) == {t \in 1..Len(chart.traces) : chart.traces[t].name = name}

\* the chart of a price history h is the window w of h, rebased if asked
ShowsWindow(name, w) ==
    /\ exception = "none"
    /\ (Len(w) > 0 \/ ~chart.rebase) => TracesNamed(name) # {}
    /\ \A t \in TracesNamed(name) :
            /\ chart.traces[t].x = [i \in 1..Len(w) |-> w[i].date]
            /\ (~chart.rebase) =>
                    chart.traces[t].y = [i \in 1..Len(w) |-> Rat(w[i].close)]
            /\ (chart.rebase /\ Len(w) > 0) =>
                    /\ chart.traces[t].y[1] = Rat(0)
                    /\ w[1].close # 0 => chart.traces[t].y = RebasedOn(w)

\* the chart is drawn, or the run ended drawing it
ChartDrawn == page = "deepdive" /\ dive_data.has /\ chart # UnsetChart

C11_RebasedWindow ==
    ChartDrawn =>
        LET bound == WindowBoundary(chart.chart_view, today)
            w == WindowOf(dive_data.historical, bound)
            spy_w == WindowOf(chart.spy.historical, bound)
        IN  /\ (Len(w) > 0 /\ ((chart.add_spy /\ chart.spy.has) => Len(spy_w) > 0))
                    => ShowsWindow("stock", w)
            /\ (chart.add_spy /\ Len(spy_w) > 0) => ShowsWindow("SPY", spy_w)

\* the part of C11 the code keeps: windows whose closes are not zero, and the
\* 1Y window of a run at midnight (start_date carries today's time of day)
NoZeroClose ==
    /\ \A i \in 1..Len(dive_data.historical) : dive_data.historical[i].close # 0
    /\ \A j \in 1..Len(chart.spy.historical) : chart.spy.historical[j].close # 0

C11_WindowFromMidnight ==
    (ChartDrawn /\ NoZeroClose /\ (chart.chart_view = "1Y" => today[4] = 0))
        => C11_RebasedWindow

(* C12: over the quarterly periods oldest first, the TTM value of revenue, *)
(* gross profit, net income, free cash flow and EPS is the sum of the last *)
(* 4 elements, the TTM margins are TTM gross profit / TTM revenue and TTM  *)
(* net income / TTM revenue, TTM FCF per share is TTM FCF divided by the   *)
(* mean of weightedAvgShares over the last 4 periods, and the Current      *)
(* Quarter value is the last element.  (The responses are newest first:    *)
(* the last 4 elements are the first 4 of the response.)                   *)
\* the number of periods the TTM figures of a statement cover
PeriodsOfTTM(data) == IF Len(data) > 4 THEN 4 ELSE Len(data)

\* the sums, the margins and the current quarter's values
C12_Sums ==
    ~metrics_df.isNone =>
        LET inc == statements.income.data
            cf  == statements.cashflow.data
            ttm == metrics_df.TTM
            now == metrics_df.Current
            rev == SumNewest(inc, "revenue", 4)
        IN  /\ ttm.Revenue = Rat(rev)
            /\ ttm.GrossProfit = Rat(SumNewest(inc, "grossProfit", 4))
            /\ ttm.NetIncome = Rat(SumNewest(inc, "netIncome", 4))
            /\ ttm.FreeCashFlow = Rat(SumNewest(cf, "freeCashFlow", 4))
            /\ ttm.EPS = Rat(SumNewest(inc, "eps", 4))
            /\ rev # 0 =>
                    /\ ttm.GrossMargin = Num(SumNewest(inc, "grossProfit", 4), rev)
                    /\ ttm.NetIncomeMargin = Num(SumNewest(inc, "netIncome", 4), rev)
            /\ now.Revenue = Rat(inc[1].revenue)
            /\ now.GrossProfit = Rat(inc[1].grossProfit)
            /\ now.NetIncome = Rat(inc[1].netIncome)
            /\ now.EPS = Rat(inc[1].eps)
            /\ now.FreeCashFlow = Rat(cf[1].freeCashFlow)

\* TTM FCF per share: TTM FCF / (sum of the shares / number of periods)
C12_FCFPerShare ==
    ~metrics_df.isNone =>
        LET inc == statements.income.data
            cf  == statements.cashflow.data
            shares == SumNewest(inc, "weightedAverageShsOut", 4)
        IN  shares # 0 =>
                metrics_df.TTM.FCFperShare =
                    Num(SumNewest(cf, "freeCashFlow", 4) * PeriodsOfTTM(inc), shares)

\* C12, all of it
C12_TTM == C12_Sums /\ C12_FCFPerShare

\* the part of C12 the code keeps for TTM FCF per share: the quotient when the
\* current quarter's weighted shares are not zero
C12_FCFPerShareOfCurrentShares ==
    (~metrics_df.isNone /\ statements.income.data[1].weightedAverageShsOut # 0)
        => C12_FCFPerShare

====
